---- MODULE Spec2Model ----
(***************************************************************************)
(* Model of tag_resources_in_tenancy.py: the tag reconciliation            *)
(* (handle_tags), the three resource handlers (handle_instances,           *)
(* handle_block_volumes, handle_boot_volumes) and the region/compartment   *)
(* loop of main.                                                           *)
(*                                                                         *)
(* Python dicts are functions whose DOMAIN is the set of keys; Python      *)
(* strings are TLA+ strings (Len, SubSeq and \o act on them as on          *)
(* sequences of characters); Python lists are sequences.                   *)
(***************************************************************************)
EXTENDS Integers, Sequences, FiniteSets, TLC

VARIABLES
    cmd,                    \* global cmd: the parsed command line
    assign_tag_namespace,   \* global assign_tag_namespace
    assign_tag_key,         \* global assign_tag_key
    assign_tag_value,       \* global assign_tag_value
    tagstate,               \* the two tag dicts of one resource, mutated in place by handle_tags
    hist,                   \* the calls of handle_tags made so far: resource, arguments, results
    pc,                     \* where the run of main() stands
    cloud,                  \* the tenancy's resources: id -> lifecycle state and tags
    tenancy,                \* main's tenancy
    regions,                \* main's regions (names, subscription order)
    compartments,           \* main's compartments
    ri,                     \* index in regions of the region of the for loop of line 677
    ci,                     \* index in compartments of the compartment of the loop of line 704
    adi,                    \* index of ad in availability_domains (handle_boot_volumes)
    availability_domains,   \* handle_boot_volumes' availability_domains
    array,                  \* the handler's array: the listing being looped on
    ai,                     \* index in array of arr
    cnt,                    \* the handler's cnt, cnt_added, cnt_deleted
    data,                   \* global data: the report the handlers append to
    warnings,               \* global warnings
    main_data,              \* main's local data (line 675)
    main_warnings,          \* main's local warnings (line 676)
    calls,                  \* the service calls made so far, in order, and how each ended
    stdout,                 \* what the end of main printed
    exit_status             \* the process's exit status, -1 while it runs

tagVars == <<cmd, assign_tag_namespace, assign_tag_key, assign_tag_value>>

callVars == <<tagstate, hist>>

envVars == <<tenancy, regions, compartments>>

loopVars == <<ri, ci, adi, availability_domains, array, ai, cnt>>

reportVars == <<data, warnings, main_data, main_warnings>>

runVars == <<pc, cloud, tenancy, regions, compartments, ri, ci, adi, availability_domains,
             array, ai, cnt, data, warnings, main_data, main_warnings, calls, stdout,
             exit_status>>

vars == <<cmd, assign_tag_namespace, assign_tag_key, assign_tag_value, tagstate, hist,
          pc, cloud, tenancy, regions, compartments, ri, ci, adi, availability_domains,
          array, ai, cnt, data, warnings, main_data, main_warnings, calls, stdout,
          exit_status>>

(* Bounds and universes                                                    *)

\* how many times in a row handle_tags is applied to one tag state
MaxCalls == 2

Namespaces == {"Ops", "Fin"}
Keys == {"env", "owner"}
Values == {"prod", "dev"}

\* dicts key -> value (freeform tags, and the value of one namespace)
KeyMaps == UNION {[D -> Values] : D \in SUBSET Keys}

\* dicts namespace -> (key -> value) (defined tags)
DefinedMaps == UNION {[D -> KeyMaps] : D \in SUBSET Namespaces}

(* Python dict and str primitives                                          *)

\* d[k] = v
DictSet(d, k, v) == [x \in (DOMAIN d) \cup {k} |-> IF x = k THEN v ELSE d[x]]

\* d.pop(k, None)
DictPop(d, k) == [x \in (DOMAIN d) \ {k} |-> d[x]]

\* index of the first occurrence of the one-character separator sep in s, 0 if none
RECURSIVE FindFrom(_, _, _)
FindFrom(s, sep, i) ==
    IF i > Len(s) THEN 0
    ELSE IF SubSeq(s, i, i) = sep THEN i
    ELSE FindFrom(s, sep, i + 1)

\* s.split(sep) for a one-character sep: the list of the pieces
RECURSIVE Split(_, _)
Split(s, sep) ==
    LET i == FindFrom(s, sep, 1)
    IN  IF i = 0 THEN <<s>>
        ELSE <<SubSeq(s, 1, i - 1)>> \o Split(SubSeq(s, i + 1, Len(s)), sep)

(* command_line: lines 103-157                                             *)

\* the parsed arguments for a command line: every option at its argparse default
\* except the ones given
Args(deftag, freetag, deltag, region, compartment, print_report) ==
    [deftag |-> deftag, freetag |-> freetag, deltag |-> deltag,
     region |-> region, compartment |-> compartment, print_report |-> print_report,
     is_instance_principals |-> FALSE, is_delegation_token |-> FALSE]

\* command_line after parse_args: the checks and the split of the tag argument.
\* status "SystemExit" is a raise SystemExit (not an Exception, so it passes the
\* except clause), "RuntimeError" an IndexError of a split re-raised as RuntimeError.
\* The three globals keep their initial "" where the code does not assign them.
command_line(a) ==
    LET none == [status |-> "SystemExit", namespace |-> "", key |-> "", value |-> ""]
        dot  == Split(a.deftag, ".")
        deq  == Split(dot[2], "=")
        feq  == Split(a.freetag, "=")
    IN  IF ~(a.deftag # "" \/ a.freetag # "") THEN none
        ELSE IF a.deftag # "" /\ a.freetag # "" THEN none
        ELSE IF a.deftag # "" THEN
            IF Len(dot) < 2 \/ Len(deq) < 2
            THEN [status |-> "RuntimeError", namespace |-> dot[1], key |-> "", value |-> ""]
            ELSE IF ~(dot[1] # "" \/ deq[1] # "" \/ deq[2] # "")
            THEN none
            ELSE [status |-> "ok", namespace |-> dot[1], key |-> deq[1], value |-> deq[2]]
        ELSE
            IF Len(feq) < 2
            THEN [status |-> "RuntimeError", namespace |-> "", key |-> feq[1], value |-> ""]
            ELSE IF ~(feq[1] # "" \/ feq[2] # "")
            THEN none
            ELSE [status |-> "ok", namespace |-> "", key |-> feq[1], value |-> feq[2]]

(* handle_tags: lines 583-634                                              *)

\* lines 591-595: the target namespace holds the target key with the target value
KeyLookedUpAtTopLevel(defined_tags) ==
    /\ assign_tag_key \in DOMAIN defined_tags
    /\ defined_tags[assign_tag_key] = assign_tag_value

defined_tags_exist(defined_tags) ==
    /\ assign_tag_namespace \in DOMAIN defined_tags
    /\ assign_tag_key \in DOMAIN defined_tags[assign_tag_namespace]
    /\ defined_tags[assign_tag_namespace][assign_tag_key] = assign_tag_value

\* line 600: defined_tags.pop(assign_tag_namespace, None)
PopKeyOnly(defined_tags) ==
    DictSet(defined_tags, assign_tag_namespace,
            DictPop(defined_tags[assign_tag_namespace], assign_tag_key))

defined_tags_pop(defined_tags) == DictPop(defined_tags, assign_tag_namespace)

\* line 606: defined_tags[assign_tag_namespace] = {assign_tag_key: assign_tag_value}
MergeIntoNamespace(defined_tags) ==
    DictSet(defined_tags, assign_tag_namespace,
            DictSet(IF assign_tag_namespace \in DOMAIN defined_tags
                    THEN defined_tags[assign_tag_namespace] ELSE << >>,
                    assign_tag_key, assign_tag_value))

defined_tags_assign(defined_tags) ==
    DictSet(defined_tags, assign_tag_namespace, [k \in {assign_tag_key} |-> assign_tag_value])

\* lines 613-616: the target key holds the target value
KeyPresentAnyValue(freeform_tags) == assign_tag_key \in DOMAIN freeform_tags

ValueComparedWithKey(freeform_tags) ==
    /\ assign_tag_key \in DOMAIN freeform_tags
    /\ freeform_tags[assign_tag_key] = assign_tag_key

freeform_tags_exist(freeform_tags) ==
    /\ assign_tag_key \in DOMAIN freeform_tags
    /\ freeform_tags[assign_tag_key] = assign_tag_value

\* line 621: freeform_tags.pop(assign_tag_key, None)
freeform_tags_pop(freeform_tags) == DictPop(freeform_tags, assign_tag_key)

\* line 627: freeform_tags[assign_tag_key] = assign_tag_value
ReplaceAllFreeform(freeform_tags) == [k \in {assign_tag_key} |-> assign_tag_value]

freeform_tags_assign(freeform_tags) ==
    DictSet(freeform_tags, assign_tag_key, assign_tag_value)

\* handle_tags(defined_tags, freeform_tags) under the globals cmd and assign_tag_*:
\* the two dicts as the call leaves them (they are mutated in place and returned),
\* and tags_process
handle_tags(defined_tags, freeform_tags) ==
    LET def_deleted == cmd.deftag # "" /\ cmd.deltag /\ defined_tags_exist(defined_tags)
        def_added   == cmd.deftag # "" /\ ~cmd.deltag /\ ~defined_tags_exist(defined_tags)
        free_deleted == cmd.freetag # "" /\ cmd.deltag /\ freeform_tags_exist(freeform_tags)
        free_added   == cmd.freetag # "" /\ ~cmd.deltag /\ ~freeform_tags_exist(freeform_tags)
    IN  [defined_tags |->
            IF def_deleted THEN defined_tags_pop(defined_tags)
            ELSE IF def_added THEN defined_tags_assign(defined_tags)
            ELSE defined_tags,
         freeform_tags |->
            IF free_deleted THEN freeform_tags_pop(freeform_tags)
            ELSE IF free_added THEN freeform_tags_assign(freeform_tags)
            ELSE freeform_tags,
         tags_process |->
            IF free_deleted THEN "Deleted"
            ELSE IF free_added THEN "Added"
            ELSE IF def_deleted THEN "Deleted"
            ELSE IF def_added THEN "Added"
            ELSE ""]

(* check_service_error: lines 163-171                                      *)

UpperCase == "ABCDEFGHIJKLMNOPQRSTUVWXYZ"
LowerCase == "abcdefghijklmnopqrstuvwxyz"

\* str.lower()
RECURSIVE Lower(_)
Lower(s) ==
    IF s = "" THEN ""
    ELSE LET c == SubSeq(s, 1, 1)
             i == FindFrom(UpperCase, c, 1)
         IN  (IF i = 0 THEN c ELSE SubSeq(LowerCase, i, i)) \o Lower(SubSeq(s, 2, Len(s)))

\* sub in s
Contains(sub, s) ==
    \E i \in 1..(Len(s) - Len(sub) + 1) : SubSeq(s, i, i + Len(sub) - 1) = sub

EveryCodeRecoverable(code) == TRUE

NoCodeRecoverable(code) == FALSE

check_service_error(code) ==
    \/ Contains("max retries exceeded", Lower(code))
    \/ Contains("auth", Lower(code))
    \/ Contains("notfound", Lower(code))
    \/ code = "Forbidden"
    \/ code = "TooManyRequests"
    \/ code = "IncorrectState"
    \/ code = "LimitExceeded"

(* The tenancy the run works on                                            *)

\* the codes of the ServiceError a listing call may raise
ErrorCodes == {"TooManyRequests", "NotAuthenticated", "NotAuthorizedOrNotFound",
               "Forbidden", "IncorrectState", "LimitExceeded",
               "InternalError", "InvalidParameter", "forbidden"}

\* the codes that make a handler warn and return, and the ones it re-raises
RecoverableCodes == {code \in ErrorCodes : check_service_error(code)}

FatalCodes == ErrorCodes \ RecoverableCodes

\* identity.get_tenancy(...).data: a Tenancy has an id and a name, no lifecycle_state
TheTenancy == [id |-> "ocid1.tenancy.acme", name |-> "acme"]

\* identity.list_region_subscriptions(tenancy.id).data, as region names
SubscribedRegions == <<"us-ashburn-1", "eu-frankfurt-1">>

\* identity.list_compartments(tenancy.id, compartment_id_in_subtree=True), all pages
ListedCompartments ==
    << [id |-> "ocid1.compartment.net", name |-> "net-compartment", lifecycle_state |-> "ACTIVE"],
       [id |-> "ocid1.compartment.old", name |-> "old-compartment", lifecycle_state |-> "DELETED"] >>

\* identity.list_availability_domains(tenancy_id).data
ListedAvailabilityDomains == << [name |-> "AD-1"], [name |-> "AD-2"] >>

\* the resources of the tenancy, in the order the listings return them, and where each is
ResourceOrder == <<"v1", "b1", "i1", "v2", "i2", "b2">>

ResourceIds == {ResourceOrder[i] : i \in 1..Len(ResourceOrder)}

Placement ==
    [r \in ResourceIds |->
        CASE r = "i1" -> [type |-> "instance", region |-> "us-ashburn-1",
                          compartment_id |-> "ocid1.compartment.net", ad |-> "AD-1"]
          [] r = "i2" -> [type |-> "instance", region |-> "us-ashburn-1",
                          compartment_id |-> "ocid1.compartment.net", ad |-> "AD-2"]
          [] r = "v1" -> [type |-> "volume", region |-> "us-ashburn-1",
                          compartment_id |-> "ocid1.tenancy.acme", ad |-> "AD-1"]
          [] r = "v2" -> [type |-> "volume", region |-> "us-ashburn-1",
                          compartment_id |-> "ocid1.compartment.net", ad |-> "AD-2"]
          [] r = "b1" -> [type |-> "boot volume", region |-> "eu-frankfurt-1",
                          compartment_id |-> "ocid1.compartment.net", ad |-> "AD-1"]
          [] r = "b2" -> [type |-> "boot volume", region |-> "eu-frankfurt-1",
                          compartment_id |-> "ocid1.compartment.net", ad |-> "AD-2"]]

TerminalStates == {"TERMINATING", "TERMINATED"}

LiveState(r) == IF Placement[r].type = "instance" THEN "RUNNING" ELSE "AVAILABLE"

\* the tags of a resource that carries the tag the run assigns, and of one that does not
TaggedTags ==
    [defined_tags |-> [n \in {"Ops"} |-> [k \in {"env", "owner"} |->
                          IF k = "env" THEN "prod" ELSE "dev"]],
     freeform_tags |-> [k \in {"env", "owner"} |-> IF k = "env" THEN "prod" ELSE "dev"]]

UntaggedTags ==
    [defined_tags |-> [n \in {"Fin"} |-> [k \in {"owner"} |-> "dev"]],
     freeform_tags |-> [k \in {"owner"} |-> "dev"]]

\* the tenancies a run starts on: no resource or one instance, volume or boot volume
\* in a terminal state, and one resource of each type carrying the tag
InitialClouds ==
    {[r \in ResourceIds |->
        [display_name |-> "name-" \o r,
         lifecycle_state |-> IF r = t.id THEN t.state ELSE LiveState(r),
         defined_tags |-> IF r \in tagged THEN TaggedTags.defined_tags
                          ELSE UntaggedTags.defined_tags,
         freeform_tags |-> IF r \in tagged THEN TaggedTags.freeform_tags
                           ELSE UntaggedTags.freeform_tags]] :
        t \in [id : {"none", "i1", "v2", "b2"}, state : TerminalStates],
        tagged \in {{"i2", "v1", "b2"}}}

\* what a listing of the given type returns for a region, a compartment and (boot
\* volumes) an availability domain: the resources placed there, as the cloud holds them
RECURSIVE ListFrom(_, _, _, _, _, _)
ListFrom(c, i, type, region, compartment_id, ad) ==
    IF i > Len(ResourceOrder) THEN << >>
    ELSE LET r == ResourceOrder[i]
             rest == ListFrom(c, i + 1, type, region, compartment_id, ad)
         IN  IF /\ Placement[r].type = type
                /\ Placement[r].region = region
                /\ Placement[r].compartment_id = compartment_id
                /\ (type = "boot volume" => Placement[r].ad = ad)
             THEN << [id |-> r,
                      display_name |-> c[r].display_name,
                      lifecycle_state |-> c[r].lifecycle_state,
                      defined_tags |-> c[r].defined_tags,
                      freeform_tags |-> c[r].freeform_tags] >> \o rest
             ELSE rest

Listing(type, region, compartment_id, ad) ==
    ListFrom(cloud, 1, type, region, compartment_id, ad)

(* identity_read_compartments: lines 304-335                               *)

\* the loop of lines 319-329 from index i of the list with the tenancy appended
RECURSIVE RootExemptFromFilter(_, _, _)
RootExemptFromFilter(list, i, t) ==
    IF i > Len(list) THEN << >>
    ELSE LET compartment == list[i]
             rest == RootExemptFromFilter(list, i + 1, t)
         IN  IF compartment.id = t.id THEN <<compartment>> \o rest
             ELSE IF compartment.lifecycle_state # "ACTIVE" THEN rest
             ELSE IF /\ cmd.compartment # ""
                     /\ compartment.id # cmd.compartment
                     /\ compartment.name # cmd.compartment
             THEN rest
             ELSE <<compartment>> \o rest

RECURSIVE FilterCompartments(_, _, _)
FilterCompartments(list, i, t) ==
    IF i > Len(list) THEN << >>
    ELSE LET compartment == list[i]
             rest == FilterCompartments(list, i + 1, t)
         IN  IF compartment.id # t.id /\ compartment.lifecycle_state # "ACTIVE"
             THEN rest
             ELSE IF /\ cmd.compartment # ""
                     /\ compartment.id # cmd.compartment
                     /\ compartment.name # cmd.compartment
             THEN rest
             ELSE <<compartment>> \o rest

identity_read_compartments(listed, t) == FilterCompartments(Append(listed, t), 1, t)

(* main and the three handlers: lines 341-577 and 640-723                 *)

\* the command lines the runs are started with
DefTag == "Ops.env=prod"
FreeTag == "env=prod"

RunArgs ==
    { Args(DefTag, "", FALSE, "", "", FALSE),
      Args(DefTag, "", TRUE, "", "", TRUE),
      Args("", FreeTag, FALSE, "", "", TRUE),
      Args("", FreeTag, TRUE, "", "", FALSE),
      Args(DefTag, "", FALSE, "us", "", TRUE),
      Args("", FreeTag, FALSE, "", "net-compartment", FALSE),
      Args("", "", FALSE, "", "", FALSE),
      Args(DefTag, FreeTag, FALSE, "", "", FALSE),
      Args("Ops", "", FALSE, "", "", FALSE),
      Args("", "env", TRUE, "", "", FALSE),
      [Args(DefTag, "", FALSE, "eu", "ocid1.tenancy.acme", FALSE)
          EXCEPT !.is_instance_principals = TRUE],
      [Args("", FreeTag, TRUE, "-1", "old-compartment", FALSE)
          EXCEPT !.is_delegation_token = TRUE] }

\* the ACTIVE tag namespaces identity.list_tag_namespaces may return, each with the
\* names of its ACTIVE tag keys (identity.list_tags)
TagNamespaceListings ==
    { << >>,
      << [name |-> "Fin", id |-> "ocid1.tagnamespace.fin", tags |-> <<"env">>] >>,
      << [name |-> "Fin", id |-> "ocid1.tagnamespace.fin", tags |-> <<"env">>],
         [name |-> "Ops", id |-> "ocid1.tagnamespace.ops", tags |-> <<"owner">>] >>,
      << [name |-> "Fin", id |-> "ocid1.tagnamespace.fin", tags |-> <<"env">>],
         [name |-> "Ops", id |-> "ocid1.tagnamespace.ops", tags |-> <<"owner", "env">>] >>,
      << [name |-> "Ops", id |-> "ocid1.tagnamespace.ops", tags |-> <<"owner">>],
         [name |-> "Ops", id |-> "ocid1.tagnamespace.ops2", tags |-> <<"env">>] >> }

\* the most listing calls of one run that fail with a recoverable service error
MaxWarnings == 2

ZeroCnt == [cnt |-> 0, cnt_added |-> 0, cnt_deleted |-> 0]

NoTags == [defined_tags |-> << >>, freeform_tags |-> << >>]

\* the process ends: SystemExit without a code is status 0, an uncaught exception 1
Exit(status) ==
    /\ pc' = "exited"
    /\ exit_status' = status

Init ==
    /\ cmd = Args("", "", FALSE, "", "", FALSE)
    /\ assign_tag_namespace = ""
    /\ assign_tag_key = ""
    /\ assign_tag_value = ""
    /\ tagstate = NoTags
    /\ hist = << >>
    /\ pc = "command_line"
    /\ cloud \in InitialClouds
    /\ tenancy = [id |-> "", name |-> ""]
    /\ regions = << >>
    /\ compartments = << >>
    /\ ri = 0
    /\ ci = 0
    /\ adi = 0
    /\ availability_domains = << >>
    /\ array = << >>
    /\ ai = 0
    /\ cnt = ZeroCnt
    /\ data = << >>
    /\ warnings = 0
    /\ main_data = << >>
    /\ main_warnings = 0
    /\ calls = << >>
    /\ stdout = << >>
    /\ exit_status = -1

\* line 641: cmd = command_line()
CommandLine ==
    /\ pc = "command_line"
    /\ \E a \in RunArgs :
        LET r == command_line(a)
        IN  /\ cmd' = a
            /\ assign_tag_namespace' = r.namespace
            /\ assign_tag_key' = r.key
            /\ assign_tag_value' = r.value
            /\ IF r.status = "ok"
               THEN pc' = "create_signer" /\ UNCHANGED exit_status
               ELSE Exit(IF r.status = "SystemExit" THEN 0 ELSE 1)
    /\ UNCHANGED <<callVars, cloud, envVars, loopVars, reportVars, calls, stdout>>

\* line 644: create_signer returns config and signer
CreateSigner ==
    /\ pc = "create_signer"
    /\ pc' = "identity"
    /\ UNCHANGED <<tagVars, callVars, cloud, envVars, loopVars, reportVars, calls, stdout,
                   exit_status>>

\* lines 182-247: the credentials cannot be obtained. Instance principals: SystemExit;
\* delegation token: SystemExit, or the exception re-raised; config file: an exception
CreateSignerFails ==
    /\ pc = "create_signer"
    /\ \E status \in {0, 1} :
        /\ cmd.is_instance_principals => status = 0
        /\ (~cmd.is_instance_principals /\ ~cmd.is_delegation_token) => status = 1
        /\ Exit(status)
    /\ UNCHANGED <<tagVars, callVars, cloud, envVars, loopVars, reportVars, calls, stdout>>

\* a call of the identity client, as logged
IdentityCall(op, result) == [op |-> op, result |-> result]

\* lines 647-655: tenancy, regions, compartments
ConnectIdentity ==
    /\ pc = "identity"
    /\ tenancy' = TheTenancy
    /\ regions' = SubscribedRegions
    /\ compartments' = identity_read_compartments(ListedCompartments, TheTenancy)
    /\ calls' = calls \o << IdentityCall("get_tenancy", "ok"), IdentityCall("list_region_subscriptions", "ok"),
                            IdentityCall("list_compartments", "ok") >>
    /\ pc' = IF cmd.deftag # "" THEN "read_tag_namespaces" ELSE "start_loop"
    /\ UNCHANGED <<tagVars, callVars, cloud, loopVars, reportVars, stdout, exit_status>>

\* lines 657-658: any exception of the three calls is re-raised as RuntimeError
ConnectIdentityFails ==
    /\ pc = "identity"
    /\ \E n \in 1..3 :
        LET ops == <<"get_tenancy", "list_region_subscriptions", "list_compartments">>
        IN  calls' = calls \o [j \in 1..n |->
                                  IdentityCall(ops[j], IF j = n THEN "raise" ELSE "ok")]
    /\ Exit(1)
    /\ UNCHANGED <<tagVars, callVars, cloud, envVars, loopVars, reportVars, stdout>>

\* lines 266-271: the first listed namespace named assign_tag_namespace, << >> if none
RECURSIVE FindTagNamespace(_, _)
FindTagNamespace(tagnamespaces, i) ==
    IF i > Len(tagnamespaces) THEN << >>
    ELSE IF tagnamespaces[i].name = assign_tag_namespace THEN <<tagnamespaces[i]>>
    ELSE FindTagNamespace(tagnamespaces, i + 1)

\* the call of identity.list_tag_namespaces, as logged with the namespaces it returned
TagNamespacesCall(tagnamespaces) ==
    [op |-> "list_tag_namespaces", result |-> "ok", data |-> tagnamespaces]

\* lines 253-298: read_tag_namespaces; SystemExit when the namespace or the key is missing
ReadTagNamespacesNoKeyCheck ==
    /\ pc = "read_tag_namespaces"
    /\ \E tagnamespaces \in TagNamespaceListings :
        LET found == FindTagNamespace(tagnamespaces, 1)
        IN  IF found = << >>
            THEN /\ calls' = Append(calls, TagNamespacesCall(tagnamespaces))
                 /\ Exit(0)
            ELSE /\ calls' = calls \o << TagNamespacesCall(tagnamespaces),
                                         IdentityCall("list_tags", "ok") >>
                 /\ pc' = "start_loop" /\ UNCHANGED exit_status
    /\ UNCHANGED <<tagVars, callVars, cloud, envVars, loopVars, reportVars, stdout>>

ReadTagNamespaces ==
    /\ pc = "read_tag_namespaces"
    /\ \E tagnamespaces \in TagNamespaceListings :
        LET found == FindTagNamespace(tagnamespaces, 1)
            tag_key_found ==
                \E j \in 1..Len(found[1].tags) : found[1].tags[j] = assign_tag_key
        IN  IF found = << >>
            THEN /\ calls' = Append(calls, TagNamespacesCall(tagnamespaces))
                 /\ Exit(0)
            ELSE /\ calls' = calls \o << TagNamespacesCall(tagnamespaces),
                                         IdentityCall("list_tags", "ok") >>
                 /\ IF tag_key_found
                    THEN pc' = "start_loop" /\ UNCHANGED exit_status
                    ELSE Exit(0)
    /\ UNCHANGED <<tagVars, callVars, cloud, envVars, loopVars, reportVars, stdout>>

\* lines 297-298: an exception of list_tag_namespaces is re-raised as RuntimeError
ReadTagNamespacesFails ==
    /\ pc = "read_tag_namespaces"
    /\ calls' = Append(calls, IdentityCall("list_tag_namespaces", "raise"))
    /\ Exit(1)
    /\ UNCHANGED <<tagVars, callVars, cloud, envVars, loopVars, reportVars, stdout>>

\* lines 674-677: main's own data and warnings, then the first region
StartLoop ==
    /\ pc = "start_loop"
    /\ main_data' = << >>
    /\ main_warnings' = 0
    /\ ri' = 1
    /\ pc' = "regions"
    /\ UNCHANGED <<tagVars, callVars, cloud, envVars, ci, adi, availability_domains, array,
                   ai, cnt, data, warnings, calls, stdout, exit_status>>

\* lines 677-698: the head of the region loop, with the region filter
NextRegionExactMatch ==
    /\ pc = "regions"
    /\ IF ri > Len(regions)
       THEN pc' = "print" /\ UNCHANGED <<ri, ci>>
       ELSE IF cmd.region # "" /\ cmd.region # regions[ri]
       THEN ri' = ri + 1 /\ UNCHANGED <<pc, ci>>
       ELSE ci' = 1 /\ pc' = "compartments" /\ UNCHANGED ri
    /\ UNCHANGED <<tagVars, callVars, cloud, envVars, adi, availability_domains, array, ai,
                   cnt, reportVars, calls, stdout, exit_status>>

NextRegion ==
    /\ pc = "regions"
    /\ IF ri > Len(regions)
       THEN pc' = "print" /\ UNCHANGED <<ri, ci>>
       ELSE IF cmd.region # "" /\ ~Contains(cmd.region, regions[ri])
       THEN ri' = ri + 1 /\ UNCHANGED <<pc, ci>>
       ELSE ci' = 1 /\ pc' = "compartments" /\ UNCHANGED ri
    /\ UNCHANGED <<tagVars, callVars, cloud, envVars, adi, availability_domains, array, ai,
                   cnt, reportVars, calls, stdout, exit_status>>

\* lines 704-707: the head of the compartment loop
NextCompartment ==
    /\ pc = "compartments"
    /\ IF ci > Len(compartments)
       THEN ri' = ri + 1 /\ pc' = "regions"
       ELSE pc' = "list_instances" /\ UNCHANGED ri
    /\ UNCHANGED <<tagVars, callVars, cloud, envVars, ci, adi, availability_domains, array,
                   ai, cnt, reportVars, calls, stdout, exit_status>>

region_name == regions[ri]

compartment == compartments[ci]

\* the listing call of a handler, as logged; result is "ok", "warning" (a ServiceError
\* the handler swallows) or "raise"
ListCall(op, ad, result) ==
    [op |-> op, region |-> region_name, compartment_id |-> compartment.id, ad |-> ad,
     result |-> result]

\* one call of handle_tags, as logged
TagsCall(id, defined_tags, freeform_tags, r) ==
    [id |-> id,
     before |-> [defined_tags |-> defined_tags, freeform_tags |-> freeform_tags],
     after |-> [defined_tags |-> r.defined_tags, freeform_tags |-> r.freeform_tags],
     tags_process |-> r.tags_process]

\* lines 370-372, 449-451, 530-532: the resource is skipped
IsTerminatedOnly(arr) == arr.lifecycle_state = "TERMINATED"

IsTerminal(arr) ==
    arr.lifecycle_state = "TERMINATING" \/ arr.lifecycle_state = "TERMINATED"

\* lines 376-384, 455-463, 536-544: the condition of the update call
UpdateAlways(tags_process) == TRUE

UpdateOnlyWhenAdded(tags_process) == tags_process = "Added"

UpdateWanted(tags_process) == tags_process # ""

\* lines 389-397, 468-476, 549-557: the Report Record
ReportRecord(type, arr, r) ==
    [region_name |-> region_name,
     compartment_name |-> compartment.name,
     type |-> type,
     name |-> arr.display_name,
     defined_tags |-> r.defined_tags,
     freeform_tags |-> r.freeform_tags,
     tags_process |-> r.tags_process]

\* lines 399-405: data.append(value), cnt += 1 and the two outcome counters
Counted(c, tags_process) ==
    [cnt |-> c.cnt + 1,
     cnt_added |-> c.cnt_added + (IF tags_process = "Added" THEN 1 ELSE 0),
     cnt_deleted |-> c.cnt_deleted + (IF tags_process = "Deleted" THEN 1 ELSE 0)]

\* the update call of a handler, as logged: the id and the two dicts it carries
UpdateCall(op, arr, r, result) ==
    [op |-> op, id |-> arr.id, defined_tags |-> r.defined_tags,
     freeform_tags |-> r.freeform_tags, result |-> result]

\* data.append(value)
InsertFirst(d, value) == <<value>> \o d

DataAppend(d, value) == Append(d, value)

\* the service applies an update: the resource holds the tags the call carries
Updated(c, id, r) ==
    [c EXCEPT ![id].defined_tags = r.defined_tags, ![id].freeform_tags = r.freeform_tags]

\* one pass of the loop on array (lines 370-405, 449-484, 530-565), the update succeeding
LoopBody(type, update_op) ==
    LET arr == array[ai]
        r == handle_tags(arr.defined_tags, arr.freeform_tags)
    IN  IF IsTerminal(arr)
        THEN UNCHANGED <<cloud, data, cnt, calls, hist>>
        ELSE /\ hist' = Append(hist, TagsCall(arr.id, arr.defined_tags, arr.freeform_tags, r))
             /\ IF UpdateWanted(r.tags_process)
                THEN /\ calls' = Append(calls, UpdateCall(update_op, arr, r, "ok"))
                     /\ cloud' = Updated(cloud, arr.id, r)
                ELSE UNCHANGED <<calls, cloud>>
             /\ data' = DataAppend(data, ReportRecord(type, arr, r))
             /\ cnt' = Counted(cnt, r.tags_process)

\* the update call raises: the exception leaves the handler and main as RuntimeError
UpdateRaises(update_op) ==
    LET arr == array[ai]
        r == handle_tags(arr.defined_tags, arr.freeform_tags)
    IN  /\ ai <= Len(array)
        /\ ~IsTerminal(arr)
        /\ UpdateWanted(r.tags_process)
        /\ hist' = Append(hist, TagsCall(arr.id, arr.defined_tags, arr.freeform_tags, r))
        /\ calls' = Append(calls, UpdateCall(update_op, arr, r, "raise"))
        /\ Exit(1)
        /\ UNCHANGED <<tagVars, tagstate, cloud, envVars, loopVars, reportVars, stdout>>

\* lines 362-367, 441-446, 522-527: the listing raises a ServiceError whose code
\* check_service_error accepts: warnings += 1 and return
ListWarnsAssignsOne(op, ad, after_pc) ==
    /\ warnings < MaxWarnings
    /\ RecoverableCodes # {}
    /\ warnings' = 1
    /\ calls' = Append(calls, ListCall(op, ad, "warning"))
    /\ pc' = after_pc
    /\ UNCHANGED <<tagVars, callVars, cloud, envVars, ri, adi, availability_domains, ai,
                   data, main_data, main_warnings, stdout, exit_status>>

ListWarns(op, ad, after_pc) ==
    /\ warnings < MaxWarnings
    /\ RecoverableCodes # {}
    /\ warnings' = warnings + 1
    /\ calls' = Append(calls, ListCall(op, ad, "warning"))
    /\ pc' = after_pc
    /\ UNCHANGED <<tagVars, callVars, cloud, envVars, ri, adi, availability_domains, ai,
                   data, main_data, main_warnings, stdout, exit_status>>

\* the listing raises a ServiceError of another code: raise
ListRaisesSwallowed(op, ad) ==
    /\ FatalCodes # {}
    /\ calls' = Append(calls, ListCall(op, ad, "raise"))
    /\ pc' = "print"
    /\ UNCHANGED <<tagVars, callVars, cloud, envVars, ri, ci, adi, availability_domains, ai,
                   reportVars, stdout, exit_status>>

ListRaises(op, ad) ==
    /\ FatalCodes # {}
    /\ calls' = Append(calls, ListCall(op, ad, "raise"))
    /\ Exit(1)
    /\ UNCHANGED <<tagVars, callVars, cloud, envVars, ri, ci, adi, availability_domains, ai,
                   reportVars, stdout>>

(* handle_instances: lines 341-417 *)

ListInstances ==
    /\ pc = "list_instances"
    /\ cnt' = ZeroCnt
    /\ array' = Listing("instance", region_name, compartment.id, "")
    /\ ai' = 1
    /\ calls' = Append(calls, ListCall("list_instances", "", "ok"))
    /\ pc' = "loop_instances"
    /\ UNCHANGED <<tagVars, callVars, cloud, envVars, ri, ci, adi, availability_domains,
                   reportVars, stdout, exit_status>>

ListInstancesWarns ==
    /\ pc = "list_instances"
    /\ ListWarns("list_instances", "", "list_volumes")
    /\ cnt' = ZeroCnt
    /\ array' = << >>
    /\ UNCHANGED ci

ListInstancesRaises ==
    /\ pc = "list_instances"
    /\ ListRaises("list_instances", "")
    /\ cnt' = ZeroCnt
    /\ array' = << >>

LoopInstances ==
    /\ pc = "loop_instances"
    /\ IF ai > Len(array)
       THEN pc' = "list_volumes" /\ UNCHANGED <<ai, cloud, data, cnt, calls, hist>>
       ELSE LoopBody("instance", "update_instance") /\ ai' = ai + 1 /\ UNCHANGED pc
    /\ UNCHANGED <<tagVars, tagstate, envVars, ri, ci, adi, availability_domains, array,
                   warnings, main_data, main_warnings, stdout, exit_status>>

UpdateInstanceRaises ==
    /\ pc = "loop_instances"
    /\ UpdateRaises("update_instance")

(* handle_block_volumes: lines 423-496 *)

ListVolumes ==
    /\ pc = "list_volumes"
    /\ cnt' = ZeroCnt
    /\ array' = Listing("volume", region_name, compartment.id, "")
    /\ ai' = 1
    /\ calls' = Append(calls, ListCall("list_volumes", "", "ok"))
    /\ pc' = "loop_volumes"
    /\ UNCHANGED <<tagVars, callVars, cloud, envVars, ri, ci, adi, availability_domains,
                   reportVars, stdout, exit_status>>

ListVolumesWarns ==
    /\ pc = "list_volumes"
    /\ ListWarns("list_volumes", "", "list_availability_domains")
    /\ cnt' = ZeroCnt
    /\ array' = << >>
    /\ UNCHANGED ci

ListVolumesRaises ==
    /\ pc = "list_volumes"
    /\ ListRaises("list_volumes", "")
    /\ cnt' = ZeroCnt
    /\ array' = << >>

LoopVolumes ==
    /\ pc = "loop_volumes"
    /\ IF ai > Len(array)
       THEN pc' = "list_availability_domains" /\ UNCHANGED <<ai, cloud, data, cnt, calls, hist>>
       ELSE LoopBody("volume", "update_volume") /\ ai' = ai + 1 /\ UNCHANGED pc
    /\ UNCHANGED <<tagVars, tagstate, envVars, ri, ci, adi, availability_domains, array,
                   warnings, main_data, main_warnings, stdout, exit_status>>

UpdateVolumeRaises ==
    /\ pc = "loop_volumes"
    /\ UpdateRaises("update_volume")

(* handle_boot_volumes: lines 502-577 *)

\* lines 508-513: the counters, array = [] and the availability domains
ListAvailabilityDomains ==
    /\ pc = "list_availability_domains"
    /\ cnt' = ZeroCnt
    /\ array' = << >>
    /\ availability_domains' = ListedAvailabilityDomains
    /\ adi' = 1
    /\ calls' = Append(calls, IdentityCall("list_availability_domains", "ok"))
    /\ pc' = "list_boot_volumes"
    /\ UNCHANGED <<tagVars, callVars, cloud, envVars, ri, ci, ai, reportVars, stdout,
                   exit_status>>

\* line 513 raises: outside the inner try, so whatever the code the run ends
ListAvailabilityDomainsRaises ==
    /\ pc = "list_availability_domains"
    /\ calls' = Append(calls, IdentityCall("list_availability_domains", "raise"))
    /\ Exit(1)
    /\ UNCHANGED <<tagVars, callVars, cloud, envVars, loopVars, reportVars, stdout>>

\* lines 514-520: the next availability domain's listing, or the end of the handler
ListBootVolumes ==
    /\ pc = "list_boot_volumes"
    /\ IF adi > Len(availability_domains)
       THEN /\ ci' = ci + 1
            /\ pc' = "compartments"
            /\ UNCHANGED <<array, ai, calls>>
       ELSE /\ array' = Listing("boot volume", region_name, compartment.id,
                                availability_domains[adi].name)
            /\ ai' = 1
            /\ calls' = Append(calls, ListCall("list_boot_volumes",
                                               availability_domains[adi].name, "ok"))
            /\ pc' = "loop_boot_volumes"
            /\ UNCHANGED ci
    /\ UNCHANGED <<tagVars, callVars, cloud, envVars, ri, adi, availability_domains, cnt,
                   reportVars, stdout, exit_status>>

ListBootVolumesWarns ==
    /\ pc = "list_boot_volumes"
    /\ adi <= Len(availability_domains)
    /\ ListWarns("list_boot_volumes", availability_domains[adi].name, "compartments")
    /\ ci' = ci + 1
    /\ UNCHANGED <<array, cnt>>

ListBootVolumesRaises ==
    /\ pc = "list_boot_volumes"
    /\ adi <= Len(availability_domains)
    /\ ListRaises("list_boot_volumes", availability_domains[adi].name)
    /\ UNCHANGED <<array, cnt>>

LoopBootVolumes ==
    /\ pc = "loop_boot_volumes"
    /\ IF ai > Len(array)
       THEN /\ adi' = adi + 1
            /\ pc' = "list_boot_volumes"
            /\ UNCHANGED <<ai, cloud, data, cnt, calls, hist>>
       ELSE /\ LoopBody("boot volume", "update_boot_volume")
            /\ ai' = ai + 1
            /\ UNCHANGED <<pc, adi>>
    /\ UNCHANGED <<tagVars, tagstate, envVars, ri, ci, availability_domains, array,
                   warnings, main_data, main_warnings, stdout, exit_status>>

UpdateBootVolumeRaises ==
    /\ pc = "loop_boot_volumes"
    /\ UpdateRaises("update_boot_volume")

(* the end of main: lines 714-723 *)

PrintOutput ==
    /\ pc = "print"
    /\ stdout' =
          (IF cmd.print_report THEN << [line |-> "Output", json |-> main_data] >> ELSE << >>)
          \o (IF main_warnings > 0
              THEN << [line |-> "Warnings appeared", count |-> main_warnings] >> ELSE << >>)
          \o << [line |-> "Completed at"] >>
    /\ Exit(0)
    /\ UNCHANGED <<tagVars, callVars, cloud, envVars, loopVars, reportVars, calls>>

Next ==
    \/ CommandLine
    \/ CreateSigner
    \/ CreateSignerFails
    \/ ConnectIdentity
    \/ ConnectIdentityFails
    \/ ReadTagNamespaces
    \/ ReadTagNamespacesFails
    \/ StartLoop
    \/ NextRegion
    \/ NextCompartment
    \/ ListInstances
    \/ ListInstancesWarns
    \/ ListInstancesRaises
    \/ LoopInstances
    \/ UpdateInstanceRaises
    \/ ListVolumes
    \/ ListVolumesWarns
    \/ ListVolumesRaises
    \/ LoopVolumes
    \/ UpdateVolumeRaises
    \/ ListAvailabilityDomains
    \/ ListAvailabilityDomainsRaises
    \/ ListBootVolumes
    \/ ListBootVolumesWarns
    \/ ListBootVolumesRaises
    \/ LoopBootVolumes
    \/ UpdateBootVolumeRaises
    \/ PrintOutput

Spec == Init /\ [][Next]_vars

(* handle_tags applied to every tag state                                  *)

\* the command lines that name one well-formed tag, with or without -deltag
TagArgs ==
    {Args(n \o "." \o k \o "=" \o v, "", d, "", "", FALSE) :
        n \in Namespaces, k \in Keys, v \in Values, d \in BOOLEAN}
    \cup {Args("", k \o "=" \o v, d, "", "", FALSE) : k \in Keys, v \in Values, d \in BOOLEAN}

InitTags ==
    /\ cmd \in TagArgs
    /\ command_line(cmd).status = "ok"
    /\ assign_tag_namespace = command_line(cmd).namespace
    /\ assign_tag_key = command_line(cmd).key
    /\ assign_tag_value = command_line(cmd).value
    /\ tagstate \in [defined_tags : DefinedMaps, freeform_tags : KeyMaps]
    /\ hist = << >>
    /\ pc = "handle_tags"
    /\ cloud = << >>
    /\ tenancy = [id |-> "", name |-> ""]
    /\ regions = << >>
    /\ compartments = << >>
    /\ ri = 0
    /\ ci = 0
    /\ adi = 0
    /\ availability_domains = << >>
    /\ array = << >>
    /\ ai = 0
    /\ cnt = ZeroCnt
    /\ data = << >>
    /\ warnings = 0
    /\ main_data = << >>
    /\ main_warnings = 0
    /\ calls = << >>
    /\ stdout = << >>
    /\ exit_status = -1

\* one call handle_tags(arr.defined_tags, arr.freeform_tags) on the resource's dicts
HandleTagsCall ==
    /\ Len(hist) < MaxCalls
    /\ LET r == handle_tags(tagstate.defined_tags, tagstate.freeform_tags)
       IN  /\ tagstate' = [defined_tags |-> r.defined_tags, freeform_tags |-> r.freeform_tags]
           /\ hist' = Append(hist, TagsCall("arr", tagstate.defined_tags,
                                             tagstate.freeform_tags, r))
    /\ UNCHANGED <<tagVars, runVars>>

NextTags == HandleTagsCall

SpecTags == InitTags /\ [][NextTags]_vars

(* identity_read_compartments applied to every listing                    *)

\* how many compartments list_compartments returns at most
MaxListed == 3

\* the compartments a listing is made of
CompartmentRecords ==
    { [id |-> "ocid1.compartment.net", name |-> "net-compartment", lifecycle_state |-> "ACTIVE"],
      [id |-> "ocid1.compartment.db", name |-> "db-compartment", lifecycle_state |-> "ACTIVE"],
      [id |-> "ocid1.compartment.old", name |-> "old-compartment", lifecycle_state |-> "DELETED"],
      [id |-> "ocid1.compartment.acme", name |-> "acme", lifecycle_state |-> "CREATING"] }

CompartmentListings == UNION {[1..n -> CompartmentRecords] : n \in 0..MaxListed}

\* the command lines with and without -cp: a name, an id, the tenancy's id and name
CompartmentArgs ==
    {Args("", FreeTag, FALSE, "", f, FALSE) :
        f \in {"", "net-compartment", "ocid1.compartment.db", "old-compartment",
               "ocid1.tenancy.acme", "acme", "net"}}

InitCompartments ==
    /\ cmd \in CompartmentArgs
    /\ assign_tag_namespace = command_line(cmd).namespace
    /\ assign_tag_key = command_line(cmd).key
    /\ assign_tag_value = command_line(cmd).value
    /\ tagstate = NoTags
    /\ hist = << >>
    /\ pc = "identity"
    /\ cloud = << >>
    /\ tenancy = TheTenancy
    /\ regions = << >>
    /\ compartments = << >>
    /\ ri = 0
    /\ ci = 0
    /\ adi = 0
    /\ availability_domains = << >>
    /\ array = << >>
    /\ ai = 0
    /\ cnt = ZeroCnt
    /\ data = << >>
    /\ warnings = 0
    /\ main_data = << >>
    /\ main_warnings = 0
    /\ calls = << >>
    /\ stdout = << >>
    /\ exit_status = -1

\* line 655: compartments = identity_read_compartments(identity, tenancy), the listing
\* call logged with what it returned
ReadCompartments ==
    /\ pc = "identity"
    /\ \E listed \in CompartmentListings :
        /\ calls' = Append(calls, [op |-> "list_compartments", result |-> "ok",
                                   data |-> listed])
        /\ compartments' = identity_read_compartments(listed, tenancy)
    /\ pc' = "start_loop"
    /\ UNCHANGED <<tagVars, callVars, cloud, tenancy, regions, loopVars, reportVars, stdout,
                   exit_status>>

NextCompartments == ReadCompartments

SpecCompartments == InitCompartments /\ [][NextCompartments]_vars

(* list_all_capres.py: the module-level run, lines 158-270                *)

\* the capacity reservations a tenancy may hold, in the order a listing returns them,
\* and the region and compartment each is in
CapresOrder == <<"r1", "r2", "r3", "r4", "r5">>

CapresIds == {CapresOrder[i] : i \in 1..Len(CapresOrder)}

CapresCatalog ==
    [r \in CapresIds |->
        CASE r = "r1" -> [region |-> "us-ashburn-1", compartment_id |-> "ocid1.compartment.net",
                          reserved_instance_count |-> 4, used_instance_count |-> 1]
          [] r = "r2" -> [region |-> "us-ashburn-1", compartment_id |-> "ocid1.tenancy.acme",
                          reserved_instance_count |-> 2, used_instance_count |-> 2]
          [] r = "r3" -> [region |-> "eu-frankfurt-1", compartment_id |-> "ocid1.compartment.net",
                          reserved_instance_count |-> 1, used_instance_count |-> 0]
          [] r = "r4" -> [region |-> "eu-frankfurt-1", compartment_id |-> "ocid1.compartment.old",
                          reserved_instance_count |-> 3, used_instance_count |-> 0]
          [] r = "r5" -> [region |-> "us-ashburn-1", compartment_id |-> "ocid1.compartment.net",
                          reserved_instance_count |-> 8, used_instance_count |-> 5]]

\* the tenancies the listing script is run on
InitialCapres == {[r \in ids |-> CapresCatalog[r]] : ids \in SUBSET CapresIds}

\* compute_client.list_compute_capacity_reservations(compartment_id=...).data in a region
RECURSIVE CapresListFrom(_, _, _, _)
CapresListFrom(c, i, region, compartment_id) ==
    IF i > Len(CapresOrder) THEN << >>
    ELSE LET r == CapresOrder[i]
             rest == CapresListFrom(c, i + 1, region, compartment_id)
         IN  IF /\ r \in DOMAIN c
                /\ c[r].region = region
                /\ c[r].compartment_id = compartment_id
             THEN << [id |-> r,
                      reserved_instance_count |-> c[r].reserved_instance_count,
                      used_instance_count |-> c[r].used_instance_count] >> \o rest
             ELSE rest

\* list_all_capres.py lines 133-150: the listing with the tenancy appended, unfiltered
capres_identity_read_compartments(listed, t) == Append(listed, t)

\* lines 158-163: the parsed command line of the listing script
CapresArgs == [is_instance_principals : BOOLEAN, is_delegation_token : BOOLEAN]

InitCapres ==
    /\ cmd \in CapresArgs
    /\ assign_tag_namespace = ""
    /\ assign_tag_key = ""
    /\ assign_tag_value = ""
    /\ tagstate = NoTags
    /\ hist = << >>
    /\ pc = "capres_create_signer"
    /\ cloud \in InitialCapres
    /\ tenancy = [id |-> "", name |-> ""]
    /\ regions = << >>
    /\ compartments = << >>
    /\ ri = 0
    /\ ci = 0
    /\ adi = 0
    /\ availability_domains = << >>
    /\ array = << >>
    /\ ai = 0
    /\ cnt = 0
    /\ data = << >>
    /\ warnings = 0
    /\ main_data = << >>
    /\ main_warnings = 0
    /\ calls = << >>
    /\ stdout = << >>
    /\ exit_status = -1

\* line 173: create_signer returns config and signer
CapresCreateSigner ==
    /\ pc = "capres_create_signer"
    /\ pc' = "capres_identity"
    /\ UNCHANGED <<tagVars, callVars, cloud, envVars, loopVars, reportVars, calls, stdout,
                   exit_status>>

\* lines 65-126: the credentials cannot be obtained. Instance principals: SystemExit;
\* delegation token: SystemExit, or the exception re-raised; config file: an exception
CapresCreateSignerFails ==
    /\ pc = "capres_create_signer"
    /\ \E status \in {0, 1} :
        /\ cmd.is_instance_principals => status = 0
        /\ (~cmd.is_instance_principals /\ ~cmd.is_delegation_token) => status = 1
        /\ Exit(status)
    /\ UNCHANGED <<tagVars, callVars, cloud, envVars, loopVars, reportVars, calls, stdout>>

\* lines 173-202: tenancy, regions, compartments, then data = [] and warnings = 0
CapresConnect ==
    /\ pc = "capres_identity"
    /\ tenancy' = TheTenancy
    /\ regions' = SubscribedRegions
    /\ compartments' = capres_identity_read_compartments(ListedCompartments, TheTenancy)
    /\ calls' = calls \o << IdentityCall("get_tenancy", "ok"),
                            IdentityCall("list_region_subscriptions", "ok"),
                            IdentityCall("list_compartments", "ok") >>
    /\ data' = << >>
    /\ warnings' = 0
    /\ ri' = 1
    /\ pc' = "capres_regions"
    /\ UNCHANGED <<tagVars, callVars, cloud, ci, adi, availability_domains, array, ai, cnt,
                   main_data, main_warnings, stdout, exit_status>>

\* lines 191-192: any exception of the three calls is re-raised as RuntimeError
CapresConnectFails ==
    /\ pc = "capres_identity"
    /\ \E n \in 1..3 :
        LET ops == <<"get_tenancy", "list_region_subscriptions", "list_compartments">>
        IN  calls' = calls \o [j \in 1..n |->
                                  IdentityCall(ops[j], IF j = n THEN "raise" ELSE "ok")]
    /\ Exit(1)
    /\ UNCHANGED <<tagVars, callVars, cloud, envVars, loopVars, reportVars, stdout>>

\* line 205: the head of the region loop
CapresNextRegion ==
    /\ pc = "capres_regions"
    /\ IF ri > Len(regions)
       THEN pc' = "capres_print" /\ UNCHANGED ci
       ELSE ci' = 1 /\ pc' = "capres_compartments"
    /\ UNCHANGED <<tagVars, callVars, cloud, envVars, ri, adi, availability_domains, array,
                   ai, cnt, reportVars, calls, stdout, exit_status>>

\* lines 224-226: the head of the compartment loop; a compartment that is neither the
\* root nor ACTIVE is skipped
CapresListsEveryCompartment ==
    /\ pc = "capres_compartments"
    /\ IF ci > Len(compartments)
       THEN ri' = ri + 1 /\ pc' = "capres_regions" /\ UNCHANGED ci
       ELSE pc' = "capres_list" /\ UNCHANGED <<ri, ci>>
    /\ UNCHANGED <<tagVars, callVars, cloud, envVars, adi, availability_domains, array, ai,
                   cnt, reportVars, calls, stdout, exit_status>>

CapresNextCompartment ==
    /\ pc = "capres_compartments"
    /\ IF ci > Len(compartments)
       THEN ri' = ri + 1 /\ pc' = "capres_regions" /\ UNCHANGED ci
       ELSE IF /\ compartments[ci].id # tenancy.id
               /\ compartments[ci].lifecycle_state # "ACTIVE"
       THEN ci' = ci + 1 /\ UNCHANGED <<pc, ri>>
       ELSE pc' = "capres_list" /\ UNCHANGED <<ri, ci>>
    /\ UNCHANGED <<tagVars, callVars, cloud, envVars, adi, availability_domains, array, ai,
                   cnt, reportVars, calls, stdout, exit_status>>

\* lines 229-233: cnt = 0 and the listing call of the compartment
CapresList ==
    /\ pc = "capres_list"
    /\ cnt' = 0
    /\ array' = CapresListFrom(cloud, 1, region_name, compartment.id)
    /\ ai' = 1
    /\ calls' = Append(calls, ListCall("list_compute_capacity_reservations", "", "ok"))
    /\ pc' = "capres_records"
    /\ UNCHANGED <<tagVars, callVars, cloud, envVars, ri, ci, adi, availability_domains,
                   reportVars, stdout, exit_status>>

\* lines 258-259: any exception of the listing call is re-raised as RuntimeError
CapresListRaises ==
    /\ pc = "capres_list"
    /\ cnt' = 0
    /\ calls' = Append(calls, ListCall("list_compute_capacity_reservations", "", "raise"))
    /\ Exit(1)
    /\ UNCHANGED <<tagVars, callVars, cloud, envVars, ri, ci, adi, availability_domains,
                   array, ai, reportVars, stdout>>

\* lines 241-249: the record of a capacity reservation
CapresRecord(capres) ==
    [region_name |-> region_name,
     compartment_name |-> compartment.name,
     compartment_id |-> compartment.id,
     resid |-> capres.id,
     reserved_instance_count |-> capres.reserved_instance_count,
     used_instance_count |-> capres.used_instance_count]

\* lines 238-256: one pass of the loop on the response, or its end
CapresLoop ==
    /\ pc = "capres_records"
    /\ IF ai > Len(array)
       THEN /\ ci' = ci + 1
            /\ pc' = "capres_compartments"
            /\ UNCHANGED <<ai, data, cnt>>
       ELSE /\ data' = DataAppend(data, CapresRecord(array[ai]))
            /\ cnt' = cnt + 1
            /\ ai' = ai + 1
            /\ UNCHANGED <<pc, ci>>
    /\ UNCHANGED <<tagVars, callVars, cloud, envVars, ri, adi, availability_domains, array,
                   warnings, main_data, main_warnings, calls, stdout, exit_status>>

\* lines 264-270: the output
CapresPrint ==
    /\ pc = "capres_print"
    /\ stdout' =
          << [line |-> "Output", json |-> data] >>
          \o (IF warnings > 0
              THEN << [line |-> "Warnings appeared", count |-> warnings] >> ELSE << >>)
          \o << [line |-> "Completed at"] >>
    /\ Exit(0)
    /\ UNCHANGED <<tagVars, callVars, cloud, envVars, loopVars, reportVars, calls>>

NextCapres ==
    \/ CapresCreateSigner
    \/ CapresCreateSignerFails
    \/ CapresConnect
    \/ CapresConnectFails
    \/ CapresNextRegion
    \/ CapresNextCompartment
    \/ CapresList
    \/ CapresListRaises
    \/ CapresLoop
    \/ CapresPrint

SpecCapres == InitCapres /\ [][NextCapres]_vars

(* The script run again with the same command line                       *)

\* how many times the script is run on the tenancy
MaxRuns == 2

\* the runs started so far: each makes one call of get_tenancy
RunsStarted == Cardinality({j \in 1..Len(calls) : calls[j].op = "get_tenancy"})

\* lines 726-728 once more, after a run that completed: a new process with the same
\* arguments. The module-level names start again from lines 64-69 and command_line
\* sets the same cmd and assignment; the tenancy keeps the tags the updates left, and
\* the log of the service calls goes on
Rerun ==
    /\ pc = "exited"
    /\ exit_status = 0
    /\ stdout # << >>
    /\ RunsStarted < MaxRuns
    /\ pc' = "create_signer"
    /\ hist' = << >>
    /\ tenancy' = [id |-> "", name |-> ""]
    /\ regions' = << >>
    /\ compartments' = << >>
    /\ ri' = 0
    /\ ci' = 0
    /\ adi' = 0
    /\ availability_domains' = << >>
    /\ array' = << >>
    /\ ai' = 0
    /\ cnt' = ZeroCnt
    /\ data' = << >>
    /\ warnings' = 0
    /\ main_data' = << >>
    /\ main_warnings' = 0
    /\ stdout' = << >>
    /\ exit_status' = -1
    /\ UNCHANGED <<tagVars, tagstate, cloud, calls>>

\* the runs in which every service call succeeds
NextRerun ==
    \/ CommandLine
    \/ CreateSigner
    \/ ConnectIdentity
    \/ ReadTagNamespaces
    \/ StartLoop
    \/ NextRegion
    \/ NextCompartment
    \/ ListInstances
    \/ LoopInstances
    \/ ListVolumes
    \/ LoopVolumes
    \/ ListAvailabilityDomains
    \/ ListBootVolumes
    \/ LoopBootVolumes
    \/ PrintOutput
    \/ Rerun

SpecRerun == Init /\ [][NextRerun]_vars

(* Properties of handle_tags, over the logged calls (SpecTags)             *)

\* d[namespace][key] == value, read off the dict
HoldsDefined(d) ==
    /\ assign_tag_namespace \in DOMAIN d
    /\ assign_tag_key \in DOMAIN d[assign_tag_namespace]
    /\ d[assign_tag_namespace][assign_tag_key] = assign_tag_value

\* f[key] == value, read off the dict
HoldsFreeform(f) ==
    /\ assign_tag_key \in DOMAIN f
    /\ f[assign_tag_key] = assign_tag_value

DefinedMode == cmd.deftag # ""

FreeformMode == cmd.freetag # ""

\* the target tag of the assignment is present with exactly the assigned value
TargetPresent(t) ==
    IF DefinedMode THEN HoldsDefined(t.defined_tags) ELSE HoldsFreeform(t.freeform_tags)

\* C1: a defined-tag add on a state where defined[namespace][key] is not the value
\* returns "Added" and leaves exactly {key: value} under the namespace, whatever
\* other keys the namespace held
C1_DefinedAddSetsSingleKey ==
    \A i \in 1..Len(hist) :
        (DefinedMode /\ ~cmd.deltag /\ ~HoldsDefined(hist[i].before.defined_tags)) =>
            /\ hist[i].tags_process = "Added"
            /\ assign_tag_namespace \in DOMAIN hist[i].after.defined_tags
            /\ DOMAIN hist[i].after.defined_tags[assign_tag_namespace] = {assign_tag_key}
            /\ hist[i].after.defined_tags[assign_tag_namespace][assign_tag_key]
                  = assign_tag_value

\* a defined-tag add was applied to a namespace that held another key
C1_Witness ==
    /\ Len(hist) >= 1
    /\ DefinedMode /\ ~cmd.deltag
    /\ ~HoldsDefined(hist[1].before.defined_tags)
    /\ assign_tag_namespace \in DOMAIN hist[1].before.defined_tags
    /\ \E k \in DOMAIN hist[1].before.defined_tags[assign_tag_namespace] : k # assign_tag_key

\* C2: a defined-tag delete on a state where defined[namespace][key] is the value
\* returns "Deleted", removes the whole namespace entry and keeps every other namespace
C2_DefinedDeleteDropsNamespace ==
    \A i \in 1..Len(hist) :
        (DefinedMode /\ cmd.deltag /\ HoldsDefined(hist[i].before.defined_tags)) =>
            /\ hist[i].tags_process = "Deleted"
            /\ DOMAIN hist[i].after.defined_tags
                  = (DOMAIN hist[i].before.defined_tags) \ {assign_tag_namespace}
            /\ \A n \in DOMAIN hist[i].after.defined_tags :
                  hist[i].after.defined_tags[n] = hist[i].before.defined_tags[n]

\* a defined-tag delete removed a namespace that held another key too, next to
\* another namespace
C2_Witness ==
    /\ Len(hist) >= 1
    /\ DefinedMode /\ cmd.deltag
    /\ HoldsDefined(hist[1].before.defined_tags)
    /\ DOMAIN hist[1].before.defined_tags[assign_tag_namespace] # {assign_tag_key}
    /\ DOMAIN hist[1].before.defined_tags # {assign_tag_namespace}
    /\ hist[1].tags_process = "Deleted"

\* C3: an add of a tag that is present with exactly the assigned value returns the
\* empty outcome and leaves both dicts as they were (defined and freeform mode)
C3_AddPresentIsNoOp ==
    \A i \in 1..Len(hist) :
        (~cmd.deltag /\ TargetPresent(hist[i].before)) =>
            /\ hist[i].tags_process = ""
            /\ hist[i].after = hist[i].before

\* an add met the tag already there, in freeform mode, on the first call
C3_Witness ==
    /\ Len(hist) >= 1
    /\ FreeformMode /\ ~cmd.deltag
    /\ HoldsFreeform(hist[1].before.freeform_tags)
    /\ hist[1].before.defined_tags # << >>

\* C4: a delete of a tag that is not present with exactly the assigned value returns
\* the empty outcome and leaves both dicts as they were (defined and freeform mode)
C4_DeleteAbsentIsNoOp ==
    \A i \in 1..Len(hist) :
        (cmd.deltag /\ ~TargetPresent(hist[i].before)) =>
            /\ hist[i].tags_process = ""
            /\ hist[i].after = hist[i].before

\* a freeform delete met the key holding another value
C4_Witness ==
    /\ Len(hist) >= 1
    /\ FreeformMode /\ cmd.deltag
    /\ assign_tag_key \in DOMAIN hist[1].before.freeform_tags
    /\ hist[1].before.freeform_tags[assign_tag_key] # assign_tag_value

\* C5: in add mode a call that follows another one on the same dicts returns the
\* empty outcome and leaves the dicts as the first call left them
C5_AddIdempotent ==
    \A i \in 1..Len(hist) :
        (~cmd.deltag /\ i >= 2) =>
            /\ hist[i].before = hist[i - 1].after
            /\ hist[i].after = hist[i - 1].after
            /\ hist[i].tags_process = ""

\* add was applied twice, the first call having added the tag
C5_Witness ==
    /\ Len(hist) >= 2
    /\ ~cmd.deltag
    /\ hist[1].tags_process = "Added"
    /\ hist[1].after # hist[1].before

\* C6: a freeform add on a state where freeform[key] is not the value sets that key
\* and keeps every other key, outcome "Added"; a freeform delete on a state where
\* freeform[key] is the value removes that key only, outcome "Deleted"; the defined
\* tags are returned as they were
C6_FreeformTouchesOneKey ==
    \A i \in 1..Len(hist) :
        LET before == hist[i].before.freeform_tags
            after  == hist[i].after.freeform_tags
        IN  /\ (FreeformMode /\ ~cmd.deltag /\ ~HoldsFreeform(before)) =>
                  /\ hist[i].tags_process = "Added"
                  /\ DOMAIN after = (DOMAIN before) \cup {assign_tag_key}
                  /\ after[assign_tag_key] = assign_tag_value
                  /\ \A k \in (DOMAIN before) \ {assign_tag_key} : after[k] = before[k]
            /\ (FreeformMode /\ cmd.deltag /\ HoldsFreeform(before)) =>
                  /\ hist[i].tags_process = "Deleted"
                  /\ DOMAIN after = (DOMAIN before) \ {assign_tag_key}
                  /\ \A k \in DOMAIN after : after[k] = before[k]
            /\ FreeformMode => hist[i].after.defined_tags = hist[i].before.defined_tags

\* a freeform add was applied to a dict that held another key, next to defined tags
C6_Witness ==
    /\ Len(hist) >= 1
    /\ FreeformMode /\ ~cmd.deltag
    /\ hist[1].tags_process = "Added"
    /\ (DOMAIN hist[1].before.freeform_tags) \ {assign_tag_key} # {}
    /\ hist[1].before.defined_tags # << >>

(* Properties of the run (Spec)                                            *)

\* the resource is in one of the two terminal lifecycle states
InTerminalState(id) == cloud[id].lifecycle_state \in TerminalStates

IsListCall(c) == c.op \in {"list_instances", "list_volumes", "list_boot_volumes"}

IsUpdateCall(c) == c.op \in {"update_instance", "update_volume", "update_boot_volume"}

IsWarnedListCall(c) == IsListCall(c) /\ c.result = "warning"

Changed(h) == h.tags_process \in {"Added", "Deleted"}

ListOpOf(type) ==
    CASE type = "instance" -> "list_instances"
      [] type = "volume" -> "list_volumes"
      [] type = "boot volume" -> "list_boot_volumes"

UpdateOpOf(type) ==
    CASE type = "instance" -> "update_instance"
      [] type = "volume" -> "update_volume"
      [] type = "boot volume" -> "update_boot_volume"

\* the listing call c asks for the place the resource is in
ListCovers(c, id) ==
    /\ IsListCall(c)
    /\ c.op = ListOpOf(Placement[id].type)
    /\ c.region = Placement[id].region
    /\ c.compartment_id = Placement[id].compartment_id
    /\ (c.op = "list_boot_volumes" => c.ad = Placement[id].ad)

\* the run went through the region loop and printed its end
Completed == pc = "exited" /\ exit_status = 0 /\ stdout # << >>

\* the position of a (region, compartment, kind, availability domain) unit in the
\* order of processing: region, then compartment, then kind, then availability domain
UnitRank(region, compartment_id, op, ad) ==
    LET r == CHOOSE i \in 1..Len(regions) : regions[i] = region
        c == CHOOSE i \in 1..Len(compartments) : compartments[i].id = compartment_id
        k == CASE op = "list_instances" -> 1
               [] op = "list_volumes" -> 2
               [] op = "list_boot_volumes" -> 3
        a == IF op = "list_boot_volumes"
             THEN CHOOSE i \in 1..Len(ListedAvailabilityDomains) :
                      ListedAvailabilityDomains[i].name = ad
             ELSE 0
    IN  ((r * 10 + c) * 10 + k) * 10 + a

\* the position of a resource in the order of processing: its unit, then its place
\* in the listing
ResourceRank(id) ==
    UnitRank(Placement[id].region, Placement[id].compartment_id,
             ListOpOf(Placement[id].type), Placement[id].ad) * 10
    + (CHOOSE i \in 1..Len(ResourceOrder) : ResourceOrder[i] = id)

\* C7: the update calls are exactly the calls of handle_tags that reported "Added" or
\* "Deleted", in order, each on the resource handle_tags was called for with the
\* update operation of its type and carrying the two dicts handle_tags returned; no
\* resource is passed to handle_tags or updated twice, and no listing made after an
\* update asks again for the place of the updated resource
C7_UpdateIffTagsChanged ==
    LET updates == SelectSeq(calls, IsUpdateCall)
        changed == SelectSeq(hist, Changed)
    IN  /\ Len(updates) = Len(changed)
        /\ \A j \in 1..Len(updates) :
              /\ updates[j].id = changed[j].id
              /\ updates[j].op = UpdateOpOf(Placement[changed[j].id].type)
              /\ updates[j].defined_tags = changed[j].after.defined_tags
              /\ updates[j].freeform_tags = changed[j].after.freeform_tags
        /\ \A j, k \in 1..Len(hist) : j # k => hist[j].id # hist[k].id
        /\ \A j \in 1..Len(calls) :
              IsUpdateCall(calls[j]) =>
                  \A k \in (j + 1)..Len(calls) : ~ListCovers(calls[k], calls[j].id)

\* a delete run completed having updated one resource and left another unchanged
C7_Witness ==
    /\ Completed
    /\ \E j, k \in 1..Len(hist) :
          hist[j].tags_process = "Deleted" /\ hist[k].tags_process = ""
    /\ \E j \in 1..Len(calls) : IsUpdateCall(calls[j]) /\ calls[j].result = "ok"

\* the type of the resources the handler at pc loops on
LoopType ==
    CASE pc = "loop_instances" -> "instance"
      [] pc = "loop_volumes" -> "volume"
      [] pc = "loop_boot_volumes" -> "boot volume"

\* C8: a resource in state TERMINATING or TERMINATED is never passed to handle_tags,
\* never updated and never recorded, and the handler's cnt counts the records the
\* handler appended for its compartment and region, so it is never counted
C8_TerminalResourcesSkipped ==
    /\ \A id \in ResourceIds :
          InTerminalState(id) =>
              /\ \A j \in 1..Len(hist) : hist[j].id # id
              /\ \A j \in 1..Len(calls) : IsUpdateCall(calls[j]) => calls[j].id # id
              /\ \A j \in 1..Len(data) : data[j].name # cloud[id].display_name
    /\ pc \in {"loop_instances", "loop_volumes", "loop_boot_volumes"} =>
          /\ cnt.cnt = Cardinality({j \in 1..Len(data) :
                                      /\ data[j].region_name = region_name
                                      /\ data[j].compartment_name = compartment.name
                                      /\ data[j].type = LoopType})
          /\ cnt.cnt = Cardinality({id \in ResourceIds :
                                      /\ Placement[id].region = region_name
                                      /\ Placement[id].compartment_id = compartment.id
                                      /\ Placement[id].type = LoopType
                                      /\ \E j \in 1..Len(hist) : hist[j].id = id})

\* a run completed after a listing that succeeded returned a resource in a terminal
\* state, with other resources recorded
C8_Witness ==
    /\ Completed
    /\ Len(data) >= 2
    /\ \E id \in ResourceIds :
          /\ InTerminalState(id)
          /\ \E j \in 1..Len(calls) : ListCovers(calls[j], id) /\ calls[j].result = "ok"

\* the unit of listing call a comes before the unit of listing call b in the order
\* of processing: region, then compartment, then kind, then availability domain
UnitBefore(a, b) ==
    IF a.region # b.region
    THEN (CHOOSE i \in 1..Len(regions) : regions[i] = a.region)
           < (CHOOSE i \in 1..Len(regions) : regions[i] = b.region)
    ELSE IF a.compartment_id # b.compartment_id
    THEN (CHOOSE i \in 1..Len(compartments) : compartments[i].id = a.compartment_id)
           < (CHOOSE i \in 1..Len(compartments) : compartments[i].id = b.compartment_id)
    ELSE IF a.op # b.op
    THEN \/ a.op = "list_instances"
         \/ a.op = "list_volumes" /\ b.op = "list_boot_volumes"
    ELSE /\ a.op = "list_boot_volumes"
         /\ (CHOOSE i \in 1..Len(ListedAvailabilityDomains) :
                 ListedAvailabilityDomains[i].name = a.ad)
              < (CHOOSE i \in 1..Len(ListedAvailabilityDomains) :
                     ListedAvailabilityDomains[i].name = b.ad)

\* from place i of calls on, every listing call is of a unit that comes later in the
\* order of processing than the unit of the listing call before it (at place last,
\* 0 if there is none)
RECURSIVE ListingsAscend(_, _)
ListingsAscend(i, last) ==
    IF i > Len(calls) THEN TRUE
    ELSE IF ~IsListCall(calls[i]) THEN ListingsAscend(i + 1, last)
    ELSE /\ last > 0 => UnitBefore(calls[last], calls[i])
         /\ ListingsAscend(i + 1, i)

\* C9: data holds one record per call of handle_tags, in the order of the calls, each
\* for the resource of the call in its region, compartment and type; the resources
\* follow each other in the order region, compartment, kind (instance, volume, boot
\* volume), availability domain, place in the listing; the listings are made in the
\* order of the units, every update directly follows the listing that returned its
\* resource or an update of a resource of the same listing, and a completed
\* run holds a record of every non-terminal resource of every listing that succeeded
C9_ReportInProcessingOrder ==
    /\ Len(data) <= Len(hist)
    /\ Len(hist) <= Len(data) + 1
    /\ Len(hist) = Len(data) + 1 =>
          /\ pc = "exited" /\ exit_status = 1
          /\ IsUpdateCall(calls[Len(calls)]) /\ calls[Len(calls)].result = "raise"
    /\ \A j \in 1..Len(data) :
          /\ data[j].name = cloud[hist[j].id].display_name
          /\ data[j].region_name = Placement[hist[j].id].region
          /\ \E i \in 1..Len(compartments) :
                /\ compartments[i].id = Placement[hist[j].id].compartment_id
                /\ compartments[i].name = data[j].compartment_name
          /\ data[j].type = Placement[hist[j].id].type
          /\ data[j].defined_tags = hist[j].after.defined_tags
          /\ data[j].freeform_tags = hist[j].after.freeform_tags
          /\ data[j].tags_process = hist[j].tags_process
    /\ \A j \in 2..Len(hist) : ResourceRank(hist[j - 1].id) < ResourceRank(hist[j].id)
    /\ ListingsAscend(1, 0)
    /\ \A k \in 1..Len(calls) :
          IsUpdateCall(calls[k]) =>
              /\ k >= 2
              /\ \/ ListCovers(calls[k - 1], calls[k].id)
                 \/ /\ IsUpdateCall(calls[k - 1])
                    /\ Placement[calls[k - 1].id] = Placement[calls[k].id]
    /\ Completed =>
          \A id \in ResourceIds :
              (/\ ~InTerminalState(id)
               /\ \E j \in 1..Len(calls) : ListCovers(calls[j], id) /\ calls[j].result = "ok")
              => \E j \in 1..Len(data) : hist[j].id = id

\* a run completed with every resource recorded, unchanged ones among them, over two
\* regions, two compartments, three kinds and two availability domains
C9_Witness ==
    /\ Completed
    /\ Len(data) = Cardinality(ResourceIds)
    /\ \E j, k \in 1..Len(data) : data[j].tags_process = "" /\ data[k].tags_process # ""

\* the places in calls of the listing calls that ended in a recoverable service error
WarnedListCalls == {j \in 1..Len(calls) : IsWarnedListCall(calls[j])}

\* the units a run with these regions and compartments lists: every region that
\* passes the region filter, every compartment, the three kinds
AllUnitsListed ==
    \A i \in 1..Len(regions), j \in 1..Len(compartments) :
        (cmd.region = "" \/ Contains(cmd.region, regions[i])) =>
            \A op \in {"list_instances", "list_volumes", "list_boot_volumes"} :
                \E k \in 1..Len(calls) :
                    /\ calls[k].op = op
                    /\ calls[k].region = regions[i]
                    /\ calls[k].compartment_id = compartments[j].id

C10_State ==
    /\ LET warned == WarnedListCalls
       IN  /\ warnings = Cardinality(warned)
           /\ \A j, k \in warned :
                 j # k =>
                     <<calls[j].op, calls[j].region, calls[j].compartment_id>>
                     # <<calls[k].op, calls[k].region, calls[k].compartment_id>>
    /\ pc = "exited" /\ exit_status = 1 /\ calls # << >> =>
          calls[Len(calls)].result = "raise"
    /\ Completed => AllUnitsListed

\* C10: a step in which a listing call ends in a recoverable service error adds
\* exactly 1 to warnings and does not end the run; no step lowers warnings; warnings
\* is the number of such listing calls, at most one per (kind, compartment, region);
\* a run that ends with status 1 ends on a call that raised, and a run that
\* completes has listed every kind in every compartment of every region it works on
C10_WarningPerFailedListing ==
    [][/\ warnings' >= warnings
       /\ (Len(calls') = Len(calls) + 1 /\ IsWarnedListCall(calls'[Len(calls')])) =>
             (warnings' = warnings + 1 /\ pc' # "exited")
       /\ C10_State']_vars

\* a run completed after two listing calls failed with a recoverable service error,
\* the first one not in the last compartment
C10_Witness ==
    /\ Completed
    /\ warnings = 2
    /\ Len(data) >= 1
    /\ \E j \in 1..Len(calls) :
          /\ IsWarnedListCall(calls[j])
          /\ calls[j].op = "list_instances"
          /\ calls[j].region = regions[1]
          /\ calls[j].compartment_id = compartments[1].id

\* the resource is of the kind, region and compartment the listing call c asked for
InUnitOf(c, id) ==
    /\ c.op = ListOpOf(Placement[id].type)
    /\ c.region = Placement[id].region
    /\ c.compartment_id = Placement[id].compartment_id

\* C11: when the listing of a (kind, compartment, region) unit ends in a recoverable
\* service error, no resource of that kind in that compartment and region is passed
\* to handle_tags, updated or recorded, boot volumes of another availability domain
\* of the unit included
C11_WarnedUnitUntouched ==
    \A j \in WarnedListCalls :
        \A id \in ResourceIds :
            InUnitOf(calls[j], id) =>
                /\ \A h \in 1..Len(hist) : hist[h].id # id
                /\ \A k \in 1..Len(calls) : IsUpdateCall(calls[k]) => calls[k].id # id
                /\ \A d \in 1..Len(data) : data[d].name # cloud[id].display_name

\* C12: a call that raised (a listing call with a code that is not recoverable, an
\* update call, the availability-domain lookup, a call of the identity client) is the
\* last call of the run: the process has ended with status 1 and has printed neither
\* the report nor the warning summary
C12_FatalErrorAbortsRun ==
    \A j \in 1..Len(calls) :
        calls[j].result = "raise" =>
            /\ j = Len(calls)
            /\ pc = "exited"
            /\ exit_status = 1
            /\ stdout = << >>

\* a listing call raised after records were appended to the report and a warning counted
C12_Witness ==
    /\ pc = "exited"
    /\ exit_status = 1
    /\ calls # << >>
    /\ IsListCall(calls[Len(calls)])
    /\ calls[Len(calls)].result = "raise"
    /\ Len(data) >= 1
    /\ warnings >= 1
    /\ stdout = << >>

\* C13: the JSON array a completed run with -print prints is the list of records the
\* handlers appended
C13_PrintedReportIsHandlersReport ==
    (Completed /\ cmd.print_report) =>
        /\ stdout[1].line = "Output"
        /\ stdout[1].json = data

\* C14: a completed run prints the number of listing calls that ended in a recoverable
\* service error when there was one
C14_WarningSummaryPrinted ==
    (Completed /\ WarnedListCalls # {}) =>
        \E i \in 1..Len(stdout) :
            /\ stdout[i].line = "Warnings appeared"
            /\ stdout[i].count = Cardinality(WarnedListCalls)

\* C15: the process ends with status 0 only when the region loop went through every
\* region and the end of main was printed
C15_StatusZeroOnlyWhenCompleted ==
    (pc = "exited" /\ exit_status = 0) =>
        /\ ri > Len(regions)
        /\ regions # << >>
        /\ stdout # << >>

(* Properties of identity_read_compartments (SpecCompartments)             *)

\* the compartment is the tenancy root or ACTIVE, and passes the compartment filter
Kept(c) ==
    /\ c.id = tenancy.id \/ c.lifecycle_state = "ACTIVE"
    /\ \/ cmd.compartment = ""
       \/ c.id = cmd.compartment
       \/ c.name = cmd.compartment

\* C16: identity_read_compartments returns, in listing order with the root last,
\* exactly the compartments of the listing followed by the tenancy root that are the
\* root or ACTIVE and that pass the filter (none set, or equal to the id or the name);
\* so every compartment returned is the root or ACTIVE, and a filter that is neither
\* the root's id nor its name excludes the root
C16_CompartmentsFiltered ==
    calls # << >> =>
        /\ compartments = SelectSeq(Append(calls[1].data, tenancy), Kept)
        /\ \A i \in 1..Len(compartments) :
              compartments[i].id = tenancy.id \/ compartments[i].lifecycle_state = "ACTIVE"
        /\ (cmd.compartment # "" /\ cmd.compartment \notin {tenancy.id, tenancy.name}) =>
              \A i \in 1..Len(compartments) : compartments[i].id # tenancy.id

\* the filter names one of two ACTIVE compartments listed next to a deleted one: only
\* that compartment is returned, without the root
C16_Witness ==
    /\ calls # << >>
    /\ cmd.compartment = "net-compartment"
    /\ Len(calls[1].data) = 3
    /\ \E i, j, k \in 1..3 :
          /\ calls[1].data[i].name = "net-compartment"
          /\ calls[1].data[j].name = "db-compartment"
          /\ calls[1].data[k].name = "old-compartment"
    /\ Len(compartments) = 1
    /\ compartments[1].name = "net-compartment"

(* Properties of the region filter (Spec)                                  *)

\* the region filters of the command lines
RegionFilters == {a.region : a \in RunArgs}

\* s is some prefix of s, then sub, then the rest of s
Within(sub, s) ==
    \E i \in 0..(Len(s) - Len(sub)) :
        SubSeq(s, 1, i) \o sub \o SubSeq(s, i + Len(sub) + 1, Len(s)) = s

\* for each filter, the subscribed regions whose name holds the filter string
PassingRegions ==
    [f \in RegionFilters |->
        {SubscribedRegions[i] : i \in {j \in 1..Len(SubscribedRegions) :
                                          f = "" \/ Within(f, SubscribedRegions[j])}}]

\* C17: every listing call is for a region whose name holds the region filter as a
\* substring (any region when no filter is set), every update call and every record
\* is of a resource of such a region, and a run that completes has listed the
\* instances, volumes and boot volumes of every compartment in every subscribed
\* region that holds the filter
C17_RegionFilterIsSubstring ==
    LET pass == PassingRegions[cmd.region]
    IN  /\ \A j \in 1..Len(calls) :
              /\ IsListCall(calls[j]) => calls[j].region \in pass
              /\ IsUpdateCall(calls[j]) => Placement[calls[j].id].region \in pass
        /\ \A j \in 1..Len(data) : data[j].region_name \in pass
        /\ \A j \in 1..Len(hist) : Placement[hist[j].id].region \in pass
        /\ Completed =>
              \A r \in pass :
                  \A i \in 1..Len(compartments) :
                      \A op \in {"list_instances", "list_volumes", "list_boot_volumes"} :
                          \E k \in 1..Len(calls) :
                              /\ calls[k].op = op
                              /\ calls[k].region = r
                              /\ calls[k].compartment_id = compartments[i].id

\* a run with -rg us completed: us-ashburn-1 was listed and updated, eu-frankfurt-1
\* was subscribed and never listed
C17_Witness ==
    /\ Completed
    /\ cmd.region = "us"
    /\ Len(regions) = 2
    /\ Len(data) >= 1
    /\ \E j \in 1..Len(calls) : IsUpdateCall(calls[j])
    /\ \E j \in 1..Len(calls) : IsListCall(calls[j]) /\ calls[j].region = "us-ashburn-1"
    /\ \A j \in 1..Len(calls) : IsListCall(calls[j]) => calls[j].region # "eu-frankfurt-1"

(* Properties of the capacity-reservation listing (SpecCapres)             *)

IsCapresCall(c) == c.op = "list_compute_capacity_reservations"

\* the compartment with this id is the tenancy root or an ACTIVE listed compartment
RootOrActive(compartment_id) ==
    \/ compartment_id = TheTenancy.id
    \/ \E i \in 1..Len(ListedCompartments) :
          /\ ListedCompartments[i].id = compartment_id
          /\ ListedCompartments[i].lifecycle_state = "ACTIVE"

\* the capacity reservations of the tenancy that are in a subscribed region and in a
\* compartment that is the root or ACTIVE
ReportedCapres ==
    {r \in DOMAIN cloud :
        /\ \E i \in 1..Len(SubscribedRegions) : SubscribedRegions[i] = cloud[r].region
        /\ RootOrActive(cloud[r].compartment_id)}

\* the place of a record in the order region, then compartment
PairRank(rec) ==
    (CHOOSE i \in 1..Len(regions) : regions[i] = rec.region_name) * 10
    + (CHOOSE i \in 1..Len(compartments) : compartments[i].id = rec.compartment_id)

\* C18: every listing call of the script is for a compartment that is the root or
\* ACTIVE; a call that raised is the last one, the run ended with status 1 and nothing
\* was printed; a run that completed made exactly one listing call per (subscribed
\* region, root or ACTIVE compartment), in region-then-compartment order, and printed
\* one JSON array, which holds exactly one record for each capacity reservation of
\* those pairs, with its fields, in region-then-compartment order and, within a
\* pair, in the order of the listing
C18_CapresReport ==
    /\ \A j \in 1..Len(calls) :
          /\ IsCapresCall(calls[j]) => RootOrActive(calls[j].compartment_id)
          /\ calls[j].result = "raise" =>
                j = Len(calls) /\ pc = "exited" /\ exit_status = 1 /\ stdout = << >>
    /\ stdout # << >> =>
          /\ pc = "exited" /\ exit_status = 0
          /\ Cardinality({i \in 1..Len(stdout) : stdout[i].line = "Output"}) = 1
          /\ stdout[1].line = "Output"
          /\ LET json == stdout[1].json
                 listed == SelectSeq(calls, IsCapresCall)
             IN  /\ Len(json) = Cardinality(ReportedCapres)
                 /\ \A r \in ReportedCapres :
                       \E j \in 1..Len(json) :
                           /\ json[j].resid = r
                           /\ json[j].region_name = cloud[r].region
                           /\ json[j].compartment_id = cloud[r].compartment_id
                           /\ \E i \in 1..Len(compartments) :
                                 /\ compartments[i].id = json[j].compartment_id
                                 /\ compartments[i].name = json[j].compartment_name
                           /\ json[j].reserved_instance_count = cloud[r].reserved_instance_count
                           /\ json[j].used_instance_count = cloud[r].used_instance_count
                 /\ \A j \in 2..Len(json) :
                       \/ PairRank(json[j - 1]) < PairRank(json[j])
                       \/ /\ PairRank(json[j - 1]) = PairRank(json[j])
                          /\ (CHOOSE i \in 1..Len(CapresOrder) : CapresOrder[i] = json[j - 1].resid)
                               < (CHOOSE i \in 1..Len(CapresOrder) : CapresOrder[i] = json[j].resid)
                 /\ Len(listed) = Len(SubscribedRegions)
                                  * Cardinality({i \in 1..Len(compartments) :
                                                    RootOrActive(compartments[i].id)})
                 /\ \A j \in 2..Len(listed) :
                       PairRank([region_name |-> listed[j - 1].region,
                                 compartment_id |-> listed[j - 1].compartment_id])
                       < PairRank([region_name |-> listed[j].region,
                                   compartment_id |-> listed[j].compartment_id])

\* a run completed on a tenancy with two reservations in one compartment and region,
\* one in another region and one in a deleted compartment
C18_Witness ==
    /\ stdout # << >>
    /\ pc = "exited"
    /\ DOMAIN cloud = CapresIds
    /\ Len(stdout[1].json) = 4
    /\ \E i \in 1..Len(compartments) : ~RootOrActive(compartments[i].id)

(* Properties of the tag namespace check (Spec)                            *)

\* the places in calls of the calls of list_tag_namespaces
TagNamespaceCalls == {j \in 1..Len(calls) : calls[j].op = "list_tag_namespaces"}

\* the first namespace of the listing with the target name holds the target key
TargetDeclared(tagnamespaces) ==
    \E n \in 1..Len(tagnamespaces) :
        /\ tagnamespaces[n].name = assign_tag_namespace
        /\ \A m \in 1..(n - 1) : tagnamespaces[m].name # assign_tag_namespace
        /\ \E t \in 1..Len(tagnamespaces[n].tags) : tagnamespaces[n].tags[t] = assign_tag_key

\* the region loop has been entered
LoopStarted ==
    pc \notin {"command_line", "create_signer", "identity", "read_tag_namespaces",
               "start_loop", "exited"} \/ ri >= 1

\* C19: in defined-tag mode every listing and every update call of a run comes after
\* a call of list_tag_namespaces that succeeded and returned a namespace with the
\* target name that holds the target key; when the listing lacks the namespace or it
\* lacks the key the process has ended without entering the region loop and without
\* a listing or update call; in freeform mode the tag namespaces are never read
C19_NamespaceCheckedBeforeMutation ==
    /\ FreeformMode => TagNamespaceCalls = {}
    /\ (DefinedMode /\ (LoopStarted \/ \E j \in 1..Len(calls) :
                                          IsListCall(calls[j]) \/ IsUpdateCall(calls[j]))) =>
          \E k \in TagNamespaceCalls :
              /\ calls[k].result = "ok"
              /\ TargetDeclared(calls[k].data)
              /\ \A j \in 1..Len(calls) :
                    (IsListCall(calls[j]) \/ IsUpdateCall(calls[j])) => k < j
    /\ \A k \in TagNamespaceCalls :
          (calls[k].result = "ok" /\ ~TargetDeclared(calls[k].data)) =>
              /\ pc = "exited"
              /\ ri = 0
              /\ stdout = << >>
              /\ \A j \in 1..Len(calls) : ~IsListCall(calls[j]) /\ ~IsUpdateCall(calls[j])

\* a defined-tag run found the namespace and the key and went on to update a resource
C19_Witness ==
    /\ DefinedMode
    /\ Completed
    /\ \E k \in TagNamespaceCalls : TargetDeclared(calls[k].data)
    /\ \E j \in 1..Len(calls) : IsUpdateCall(calls[j]) /\ calls[j].result = "ok"

(* Properties of a second run (SpecRerun)                                  *)

\* the place in calls of the call of get_tenancy of the second run
SecondRunStart ==
    CHOOSE j \in 1..Len(calls) :
        /\ calls[j].op = "get_tenancy"
        /\ \E i \in 1..(j - 1) : calls[i].op = "get_tenancy"

\* the resources a complete run works on: not in a terminal state, in a region that
\* passes the region filter, in a compartment of the working set
WorkedOn ==
    {id \in ResourceIds :
        /\ ~InTerminalState(id)
        /\ Placement[id].region \in PassingRegions[cmd.region]
        /\ \E i \in 1..Len(compartments) : compartments[i].id = Placement[id].compartment_id}

\* C20: every listing succeeding and every update taking effect, a run made with the
\* same command line after a run that completed issues no update call, every call of
\* handle_tags in it returns the dicts unchanged with the empty outcome, every record
\* it appends holds the empty outcome, and when it completes it has recorded every
\* resource it works on exactly once
C20_SecondRunChangesNothing ==
    RunsStarted >= 2 =>
        /\ \A j \in SecondRunStart..Len(calls) : ~IsUpdateCall(calls[j])
        /\ \A h \in 1..Len(hist) :
              /\ hist[h].tags_process = ""
              /\ hist[h].after = hist[h].before
        /\ \A d \in 1..Len(data) : data[d].tags_process = ""
        /\ Completed =>
              /\ Len(data) = Cardinality(WorkedOn)
              /\ \A id \in WorkedOn :
                    \E d \in 1..Len(data) : data[d].name = cloud[id].display_name

\* a second run completed with several resources recorded, after a first run that
\* updated resources
C20_Witness ==
    /\ RunsStarted = 2
    /\ Completed
    /\ Len(data) >= 3
    /\ \E j \in 1..(SecondRunStart - 1) : IsUpdateCall(calls[j])

====
